---- MODULE Spec2Model ----
(***************************************************************************)
(* osmium fileinfo (src/src/command_fileinfo.cpp): the InfoHandler that    *)
(* folds the entity stream into counters, maxima, timestamps and the       *)
(* ordered / multiple_versions flags, the three Output views, and the      *)
(* option validation of CommandFileinfo::setup followed by run().          *)
(*                                                                         *)
(* Strings that the code inspects by prefix (the --get key, header option  *)
(* names) are sequences of their dot-separated segments:                   *)
(* "data.count.nodes" is <<"data", "count", "nodes">>, "" is <<"">>.       *)
(* Splitting at '.' is a bijection, so equality of strings is equality of  *)
(* the sequences, and "s starts with p." is a test on leading segments.    *)
(***************************************************************************)
EXTENDS Integers, Sequences, FiniteSets, TLC

VARIABLES
    pc,             \* position of the invocation: setup, then the steps of run()
    args,           \* the arguments setup() was called with (kept for reference)
    error,          \* the argument_error setup() threw, "none" otherwise
    m_extended,     \* CommandFileinfo::m_extended
    m_json_output,  \* CommandFileinfo::m_json_output
    m_get_value,    \* CommandFileinfo::m_get_value
    header,         \* the osmium::io::Header run() got from the reader
    info_handler,   \* the InfoHandler of run()
    stream,         \* the entities the reader has delivered so far, in file order
    m_writer,       \* JSONOutput: the tokens written to m_writer so far
    out             \* the lines written to standard output

vars == <<pc, args, error, m_extended, m_json_output, m_get_value, header,
          info_handler, stream, m_writer, out>>

(***************************************************************************)
(* Bounds of the model.                                                    *)
(***************************************************************************)
\* longest entity stream of the analyzer specification
MaxLen == 3
\* largest entity id of the analyzer specification
MaxId == 2
\* largest timestamp of the timestamp specification
MaxTs == 2
\* longest entity stream of the timestamp specification
MaxTimeLen == 3
\* longest entity stream of the command specification
MaxCmdLen == 3
\* most options in a header
MaxOpts == 2

(***************************************************************************)
(* osmium::item_type, in the order of its enumerators; InfoHandler         *)
(* compares them with > (line 118).                                        *)
(***************************************************************************)
undefined == 0
node == 1
way == 2
relation == 3
changeset == 5

(***************************************************************************)
(* osmium::Timestamp is a 32 bit count of seconds; 0 is the value of an    *)
(* object that has no timestamp.  start_of_time() is the smallest valid    *)
(* value, end_of_time() the largest value of the type (the model keeps its *)
(* place in the order, not its 32 bit magnitude).                          *)
(***************************************************************************)
no_timestamp == 0
start_of_time == 1
end_of_time == 2147483647

\* osmium::min_op<T>::update and osmium::max_op<T>::update
min_update(m, value) == IF value < m THEN value ELSE m
max_update(m, value) == IF value > m THEN value ELSE m

\* |x|
abs(x) == IF x < 0 THEN -x ELSE x

(***************************************************************************)
(* osmium::id_order{}(lhs, rhs): 0 first, then negative ids, then positive *)
(* ids, both by absolute value.                                            *)
(***************************************************************************)
id_order(lhs, rhs) ==
    LET l == IF lhs > 0 THEN 1 ELSE 0
        r == IF rhs > 0 THEN 1 ELSE 0
    IN  l < r \/ (l = r /\ abs(lhs) < abs(rhs))

(***************************************************************************)
(* struct InfoHandler, its members as initialised in lines 70-89 (bounds   *)
(* and crc32 are not part of the model).                                   *)
(***************************************************************************)
InfoHandler ==
    [ changesets |-> 0, nodes |-> 0, ways |-> 0, relations |-> 0,
      largest_changeset_id |-> 0, largest_node_id |-> 0,
      largest_way_id |-> 0, largest_relation_id |-> 0,
      first_timestamp |-> end_of_time, last_timestamp |-> start_of_time,
      ordered |-> TRUE, multiple_versions |-> FALSE,
      last_type |-> undefined, last_id |-> 0 ]

\* handler_changeset with >= for > in line 93: equal ids count as a decrease
handler_changeset_ge(h, c) ==
    [ h EXCEPT
        !.ordered = IF h.last_type = changeset /\ h.last_id >= c.id
                    THEN FALSE ELSE @,
        !.last_type = changeset,
        !.last_id = c.id,
        !.changesets = @ + 1,
        !.largest_changeset_id = max_update(@, c.id) ]

\* InfoHandler::changeset
handler_changeset(h, c) ==
    [ h EXCEPT
        !.ordered = IF h.last_type = changeset /\ h.last_id > c.id
                    THEN FALSE ELSE @,
        !.last_type = changeset,
        !.last_id = c.id,
        !.changesets = @ + 1,
        !.largest_changeset_id = max_update(@, c.id) ]

\* osm_object without the else branch of lines 118-120
osm_object_no_kind_check(h, object) ==
    [ h EXCEPT
        !.first_timestamp = min_update(@, object.timestamp),
        !.last_timestamp = max_update(@, object.timestamp),
        !.multiple_versions =
            IF h.last_type = object.type /\ h.last_id = object.id
            THEN TRUE ELSE @,
        !.ordered =
            IF h.last_type = object.type /\ id_order(object.id, h.last_id)
            THEN FALSE ELSE @,
        !.last_type = object.type,
        !.last_id = object.id ]

\* osm_object with !id_order(last_id, id) for id_order(id, last_id) in line
\* 115: a repeated id counts as out of order
osm_object_repeat_unordered(h, object) ==
    [ h EXCEPT
        !.first_timestamp = min_update(@, object.timestamp),
        !.last_timestamp = max_update(@, object.timestamp),
        !.multiple_versions =
            IF h.last_type = object.type /\ h.last_id = object.id
            THEN TRUE ELSE @,
        !.ordered =
            IF h.last_type = object.type
            THEN (IF ~id_order(h.last_id, object.id) THEN FALSE ELSE @)
            ELSE (IF h.last_type # changeset /\ h.last_type > object.type
                  THEN FALSE ELSE @),
        !.last_type = object.type,
        !.last_id = object.id ]

\* osm_object assigning the flags from the current comparison instead of
\* only ever setting them
osm_object_unlatched(h, object) ==
    [ h EXCEPT
        !.first_timestamp = min_update(@, object.timestamp),
        !.last_timestamp = max_update(@, object.timestamp),
        !.multiple_versions = (h.last_type = object.type /\ h.last_id = object.id),
        !.ordered =
            IF h.last_type = object.type
            THEN ~id_order(object.id, h.last_id)
            ELSE ~(h.last_type # changeset /\ h.last_type > object.type),
        !.last_type = object.type,
        !.last_id = object.id ]

\* osm_object without the last_type != changeset test of line 118: a
\* changeset ranks above every object type
osm_object_changeset_rank(h, object) ==
    [ h EXCEPT
        !.first_timestamp = min_update(@, object.timestamp),
        !.last_timestamp = max_update(@, object.timestamp),
        !.multiple_versions =
            IF h.last_type = object.type /\ h.last_id = object.id
            THEN TRUE ELSE @,
        !.ordered =
            IF h.last_type = object.type
            THEN (IF id_order(object.id, h.last_id) THEN FALSE ELSE @)
            ELSE (IF h.last_type > object.type THEN FALSE ELSE @),
        !.last_type = object.type,
        !.last_id = object.id ]

\* osm_object without the test of lines 112-114: a repeated id is not noted
osm_object_no_versions(h, object) ==
    [ h EXCEPT
        !.first_timestamp = min_update(@, object.timestamp),
        !.last_timestamp = max_update(@, object.timestamp),
        !.ordered =
            IF h.last_type = object.type
            THEN (IF id_order(object.id, h.last_id) THEN FALSE ELSE @)
            ELSE (IF h.last_type # changeset /\ h.last_type > object.type
                  THEN FALSE ELSE @),
        !.last_type = object.type,
        !.last_id = object.id ]

\* InfoHandler::osm_object
osm_object(h, object) ==
    [ h EXCEPT
        !.first_timestamp = min_update(@, object.timestamp),
        !.last_timestamp = max_update(@, object.timestamp),
        !.multiple_versions =
            IF h.last_type = object.type /\ h.last_id = object.id
            THEN TRUE ELSE @,
        !.ordered =
            IF h.last_type = object.type
            THEN (IF id_order(object.id, h.last_id) THEN FALSE ELSE @)
            ELSE (IF h.last_type # changeset /\ h.last_type > object.type
                  THEN FALSE ELSE @),
        !.last_type = object.type,
        !.last_id = object.id ]

\* InfoHandler::node
handler_node(h, n) ==
    [ h EXCEPT !.nodes = @ + 1,
               !.largest_node_id = max_update(@, n.id) ]

\* InfoHandler::way
handler_way(h, w) ==
    [ h EXCEPT !.ways = @ + 1,
               !.largest_way_id = max_update(@, w.id) ]

\* handler_relation updating the way maximum, as a copy of way() would
handler_relation_way_max(h, r) ==
    [ h EXCEPT !.relations = @ + 1,
               !.largest_way_id = max_update(@, r.id) ]

\* InfoHandler::relation
handler_relation(h, r) ==
    [ h EXCEPT !.relations = @ + 1,
               !.largest_relation_id = max_update(@, r.id) ]

(***************************************************************************)
(* osmium::apply(buffer, info_handler) for one entity: a changeset goes to *)
(* changeset(), an object to osm_object() and then to the callback of its  *)
(* type.                                                                   *)
(***************************************************************************)
apply(h, e) ==
    IF e.type = changeset THEN handler_changeset(h, e)
    ELSE IF e.type = node THEN handler_node(osm_object(h, e), e)
    ELSE IF e.type = way THEN handler_way(osm_object(h, e), e)
    ELSE handler_relation(osm_object(h, e), e)

(***************************************************************************)
(* Strings as sequences of dot-separated segments.                         *)
(***************************************************************************)
\* the std::string "" that m_get_value holds when --get was not given
EmptyString == <<"">>

\* s.substr(0, n) == "p." for the n characters of p followed by a dot
starts_with(s, p) == Len(s) > Len(p) /\ SubSeq(s, 1, Len(p)) = p

\* the characters of the string: the segments joined by dots
RECURSIVE Str(_)
Str(s) == IF Len(s) = 1 THEN s[1] ELSE s[1] \o "." \o Str(Tail(s))

\* known_values of CommandFileinfo::setup, in the order of the source
known_values ==
    << <<"file", "name">>,
       <<"file", "format">>,
       <<"file", "compression">>,
       <<"file", "size">>,
       <<"header", "with_history">>,
       <<"header", "option", "generator">>,
       <<"header", "option", "osmosis_replication_base_url">>,
       <<"header", "option", "osmosis_replication_sequence_number">>,
       <<"header", "option", "osmosis_replication_timestamp">>,
       <<"header", "option", "pbf_dense_nodes">>,
       <<"header", "option", "timestamp">>,
       <<"header", "option", "version">>,
       <<"data", "bbox">>,
       <<"data", "timestamp", "first">>,
       <<"data", "timestamp", "last">>,
       <<"data", "objects_ordered">>,
       <<"data", "multiple_versions">>,
       <<"data", "crc32">>,
       <<"data", "count", "nodes">>,
       <<"data", "count", "ways">>,
       <<"data", "count", "relations">>,
       <<"data", "count", "changesets">>,
       <<"data", "maxid", "nodes">>,
       <<"data", "maxid", "ways">>,
       <<"data", "maxid", "relations">>,
       <<"data", "maxid", "changesets">> >>

\* std::find(known_values.cbegin(), known_values.cend(), v) != known_values.cend()
is_known_value(v) == \E i \in 1..Len(known_values) : known_values[i] = v

\* setup_error without the exemption of "header.option." in line 562: every
\* value has to be in the catalog
setup_error_catalog_only(a) ==
    IF Len(a.get) > 0 /\ ~is_known_value(a.get[1])
    THEN "unknown_value"
    ELSE IF Len(a.get) > 0 /\ starts_with(a.get[1], <<"data">>) /\ ~a.extended
    THEN "need_extended"
    ELSE IF Len(a.get) > 0 /\ a.json
    THEN "get_and_json"
    ELSE "none"

\* setup_error without the check of lines 573-575
setup_error_no_conflict(a) ==
    IF Len(a.get) > 0
          /\ ~starts_with(a.get[1], <<"header", "option">>)
          /\ ~is_known_value(a.get[1])
    THEN "unknown_value"
    ELSE IF Len(a.get) > 0 /\ starts_with(a.get[1], <<"data">>) /\ ~a.extended
    THEN "need_extended"
    ELSE "none"

(***************************************************************************)
(* CommandFileinfo::setup, lines 560-575: the argument_error it throws for *)
(* the arguments a ("none" when it throws nothing).  a.get is <<>> when    *)
(* --get is not given and <<value>> when it is.                            *)
(***************************************************************************)
setup_error(a) ==
    IF Len(a.get) > 0
          /\ ~starts_with(a.get[1], <<"header", "option">>)
          /\ ~is_known_value(a.get[1])
    THEN "unknown_value"
    ELSE IF Len(a.get) > 0 /\ starts_with(a.get[1], <<"data">>) /\ ~a.extended
    THEN "need_extended"
    ELSE IF Len(a.get) > 0 /\ a.json
    THEN "get_and_json"
    ELSE "none"

(***************************************************************************)
(* How setup() ends, lines 553-577: it threw an argument_error, it         *)
(* returned false (after listing the known values) or it returned true.    *)
(* run() is called on a command whose setup() returned true.               *)
(***************************************************************************)
setup_outcome(err, returned) ==
    IF err # "none" THEN "threw"
    ELSE IF returned THEN "returned_true"
    ELSE "returned_false"

\* the lines of std::copy(known_values ..., ostream_iterator(std::cout, "\n"))
show_variables == [i \in 1..Len(known_values) |-> Str(known_values[i])]

(***************************************************************************)
(* CommandFileinfo::setup(arguments), for arguments drawn from A.          *)
(***************************************************************************)
Setup(A) ==
    /\ pc = "setup"
    /\ \E a \in A :
        /\ args' = a
        /\ m_extended' = (a.extended \/ m_extended)
        /\ m_json_output' = (a.json \/ m_json_output)
        /\ IF a.show_variables
           THEN /\ out' = out \o show_variables
                /\ UNCHANGED m_get_value
                /\ error' = "none"
                /\ pc' = setup_outcome("none", FALSE)
           ELSE /\ UNCHANGED out
                /\ m_get_value' = IF Len(a.get) > 0 THEN a.get[1] ELSE m_get_value
                /\ error' = setup_error(a)
                /\ pc' = setup_outcome(setup_error(a), TRUE)
    /\ UNCHANGED <<header, info_handler, stream, m_writer>>

(***************************************************************************)
(* What the views print.  A line of standard output is a string without    *)
(* its final newline.  Values the model does not follow (the file's        *)
(* format, compression and size, bounding boxes, the CRC) print as fixed   *)
(* texts.                                                                  *)
(***************************************************************************)
FileFormat == "XML"
FileCompression == "none"
FileSize == "1024"
BoxText == "(1,2,3,4)"
Crc32Text == "crc32"

\* input_file.filename(): empty when the input is standard input ("-")
input_file_filename(a) == IF a.input_filename = "-" THEN "" ELSE a.input_filename

\* yes_no(choice), which ends the line it is written to
yes_no(choice) == IF choice THEN "yes" ELSE "no"

\* operator<< of osmium::Timestamp: to_iso(), empty for the value 0
to_iso(t) == IF t = no_timestamp THEN "" ELSE "T" \o ToString(t) \o "Z"

\* the lines that a sequence of sequences of lines adds up to
RECURSIVE Flatten(_)
Flatten(ss) == IF ss = <<>> THEN <<>> ELSE Head(ss) \o Flatten(Tail(ss))

\* <<x>> when the condition holds, nothing otherwise
When(cond, x) == IF cond THEN <<x>> ELSE <<>>

(***************************************************************************)
(* class HumanReadableOutput                                               *)
(***************************************************************************)
\* HumanReadableOutput::file
human_file(a) ==
    << "File:",
       "  Name: " \o a.input_filename,
       "  Format: " \o FileFormat,
       "  Compression: " \o FileCompression >>
    \o When(input_file_filename(a) # "", "  Size: " \o FileSize)

\* HumanReadableOutput::header
human_header(hd) ==
    << "Header:", "  Bounding boxes:" >>
    \o [i \in 1..Len(hd.boxes) |-> "    " \o hd.boxes[i]]
    \o << "  With history: " \o yes_no(hd.has_multiple_object_versions),
          "  Options:" >>
    \o [i \in 1..Len(hd.options) |->
            "    " \o Str(hd.options[i].first) \o "=" \o hd.options[i].second]

\* HumanReadableOutput::data, lines 207-215: the multiple versions line(s)
human_multiple_versions(hd, h) ==
    IF h.ordered
    THEN << "  Multiple versions of same object: " \o yes_no(h.multiple_versions) >>
         \o When(h.multiple_versions # hd.has_multiple_object_versions,
                 "    WARNING! This is different from the setting in the header.")
    ELSE << "  Multiple versions of same object: unknown (because objects in file are unordered)" >>

\* HumanReadableOutput::data
human_data(hd, h) ==
    << "Data:", "  Bounding box: " \o BoxText >>
    \o (IF h.first_timestamp # end_of_time
        THEN << "  Timestamps:",
                "    First: " \o to_iso(h.first_timestamp),
                "    Last: " \o to_iso(h.last_timestamp) >>
        ELSE <<>>)
    \o << "  Objects ordered (by type and id): " \o yes_no(h.ordered) >>
    \o human_multiple_versions(hd, h)
    \o << "  CRC32: " \o Crc32Text,
          "  Number of changesets: " \o ToString(h.changesets),
          "  Number of nodes: " \o ToString(h.nodes),
          "  Number of ways: " \o ToString(h.ways),
          "  Number of relations: " \o ToString(h.relations),
          "  Largest changeset ID: " \o ToString(h.largest_changeset_id),
          "  Largest node ID: " \o ToString(h.largest_node_id),
          "  Largest way ID: " \o ToString(h.largest_way_id),
          "  Largest relation ID: " \o ToString(h.largest_relation_id) >>

(***************************************************************************)
(* class JSONOutput: the tokens handed to m_writer.  StartObject and       *)
(* EndObject are "{" and "}", StartArray and EndArray "[" and "]", a       *)
(* String its text, a Bool "true" or "false", an Int64 its digits.         *)
(***************************************************************************)
json_bool(b) == IF b THEN "true" ELSE "false"

\* JSONOutput::add_bbox
add_bbox(box) == << "[", box, "]" >>

\* JSONOutput::file
json_file(a) ==
    << "file", "{",
       "name", a.input_filename,
       "format", FileFormat,
       "compression", FileCompression >>
    \o (IF input_file_filename(a) # "" THEN << "size", FileSize >> ELSE <<>>)
    \o << "}" >>

\* JSONOutput::header
json_header(hd) ==
    << "header", "{", "boxes", "[" >>
    \o Flatten([i \in 1..Len(hd.boxes) |-> add_bbox(hd.boxes[i])])
    \o << "]", "with_history", json_bool(hd.has_multiple_object_versions),
          "option", "{" >>
    \o Flatten([i \in 1..Len(hd.options) |->
                   << Str(hd.options[i].first), hd.options[i].second >>])
    \o << "}", "}" >>

\* JSONOutput::data, lines 327-330: the multiple_versions member
json_multiple_versions(h) ==
    IF h.ordered
    THEN << "multiple_versions", json_bool(h.multiple_versions) >>
    ELSE <<>>

\* JSONOutput::data
json_data(h) ==
    << "data", "{", "bbox" >> \o add_bbox(BoxText)
    \o (IF h.first_timestamp # end_of_time
        THEN << "timestamp", "{",
                "first", to_iso(h.first_timestamp),
                "last", to_iso(h.last_timestamp), "}" >>
        ELSE <<>>)
    \o << "objects_ordered", json_bool(h.ordered) >>
    \o json_multiple_versions(h)
    \o << "crc32", Crc32Text,
          "count", "{",
          "changesets", ToString(h.changesets),
          "nodes", ToString(h.nodes),
          "ways", ToString(h.ways),
          "relations", ToString(h.relations), "}",
          "maxid", "{",
          "changesets", ToString(h.largest_changeset_id),
          "nodes", ToString(h.largest_node_id),
          "ways", ToString(h.largest_way_id),
          "relations", ToString(h.largest_relation_id), "}",
          "}" >>

(***************************************************************************)
(* class SimpleOutput, for the value get of m_get_value.                   *)
(***************************************************************************)
\* SimpleOutput::file
simple_file(get, a) ==
    When(get = <<"file", "name">>, a.input_filename)
    \o When(get = <<"file", "format">>, FileFormat)
    \o When(get = <<"file", "compression">>, FileCompression)
    \o When(get = <<"file", "size">>,
            IF input_file_filename(a) = "" THEN "0" ELSE FileSize)

\* simple_header_options leaving the loop at the first option that matches
simple_header_options_first(get, hd) ==
    LET matching == SelectSeq(hd.options,
                        LAMBDA option : get = <<"header", "option">> \o option.first)
    IN  IF matching = <<>> THEN <<>> ELSE << matching[1].second >>

\* SimpleOutput::header, lines 405-411: one line for every option of the
\* header whose name, appended to "header.option.", is the value asked for
simple_header_options(get, hd) ==
    LET matching == SelectSeq(hd.options,
                        LAMBDA option : get = <<"header", "option">> \o option.first)
    IN  [i \in 1..Len(matching) |-> matching[i].second]

\* SimpleOutput::header
simple_header(get, hd) ==
    When(get = <<"header", "with_history">>, yes_no(hd.has_multiple_object_versions))
    \o simple_header_options(get, hd)

\* SimpleOutput::data, lines 419-433: the two timestamp values
simple_timestamps(get, h) ==
    When(get = <<"data", "timestamp", "first">>,
         IF h.first_timestamp = end_of_time THEN "" ELSE to_iso(h.first_timestamp))
    \o When(get = <<"data", "timestamp", "last">>,
            IF h.first_timestamp = end_of_time THEN "" ELSE to_iso(h.last_timestamp))

\* simple_multiple_versions without the test of ordered in line 440
simple_multiple_versions_always(get, h) ==
    When(get = <<"data", "multiple_versions">>,
         IF h.multiple_versions THEN "yes" ELSE "no")

\* SimpleOutput::data, lines 439-445: the multiple_versions value
simple_multiple_versions(get, h) ==
    When(get = <<"data", "multiple_versions">>,
         IF h.ordered THEN (IF h.multiple_versions THEN "yes" ELSE "no")
         ELSE "unknown")

\* SimpleOutput::data
simple_data(get, h) ==
    When(get = <<"data", "bbox">>, BoxText)
    \o simple_timestamps(get, h)
    \o When(get = <<"data", "objects_ordered">>, IF h.ordered THEN "yes" ELSE "no")
    \o simple_multiple_versions(get, h)
    \o When(get = <<"data", "crc32">>, Crc32Text)
    \o When(get = <<"data", "count", "changesets">>, ToString(h.changesets))
    \o When(get = <<"data", "count", "nodes">>, ToString(h.nodes))
    \o When(get = <<"data", "count", "ways">>, ToString(h.ways))
    \o When(get = <<"data", "count", "relations">>, ToString(h.relations))
    \o When(get = <<"data", "maxid", "changesets">>, ToString(h.largest_changeset_id))
    \o When(get = <<"data", "maxid", "nodes">>, ToString(h.largest_node_id))
    \o When(get = <<"data", "maxid", "ways">>, ToString(h.largest_way_id))
    \o When(get = <<"data", "maxid", "relations">>, ToString(h.largest_relation_id))

(***************************************************************************)
(* CommandFileinfo::run                                                    *)
(***************************************************************************)
\* lines 588-595: the Output that run() creates
output ==
    IF m_json_output THEN "JSONOutput"
    ELSE IF m_get_value = EmptyString THEN "HumanReadableOutput"
    ELSE "SimpleOutput"

\* lines 588-597: the Output is created (JSONOutput() starts the document)
\* and output->file() is called
RunFile ==
    /\ pc = "returned_true"
    /\ out' = out \o (IF output = "HumanReadableOutput" THEN human_file(args)
                      ELSE IF output = "SimpleOutput" THEN simple_file(m_get_value, args)
                      ELSE <<>>)
    /\ m_writer' = (IF output = "JSONOutput"
                    THEN m_writer \o << "{" >> \o json_file(args)
                    ELSE m_writer)
    /\ pc' = "header"
    /\ UNCHANGED <<args, error, m_extended, m_json_output, m_get_value, header,
                   info_handler, stream>>

\* lines 599-604: the reader is opened, its header (one of H) goes to
\* output->header(); in extended mode the InfoHandler is created
RunHeader(H) ==
    /\ pc = "header"
    /\ \E hd \in H :
        /\ header' = hd
        /\ out' = out \o (IF output = "HumanReadableOutput" THEN human_header(hd)
                          ELSE IF output = "SimpleOutput"
                               THEN simple_header(m_get_value, hd)
                          ELSE <<>>)
        /\ m_writer' = (IF output = "JSONOutput"
                        THEN m_writer \o json_header(hd)
                        ELSE m_writer)
    /\ info_handler' = InfoHandler
    /\ pc' = IF m_extended THEN "read" ELSE "close"
    /\ UNCHANGED <<args, error, m_extended, m_json_output, m_get_value, stream>>

\* lines 606-609: the reader delivers one more entity (one of E, while the
\* stream is shorter than n) and osmium::apply hands it to the InfoHandler
Read(E, n) ==
    /\ pc = "read"
    /\ Len(stream) < n
    /\ \E e \in E :
        /\ info_handler' = apply(info_handler, e)
        /\ stream' = Append(stream, e)
    /\ UNCHANGED <<pc, args, error, m_extended, m_json_output, m_get_value,
                   header, m_writer, out>>

\* lines 606-611: the reader is at the end of the stream and output->data()
\* is called
RunData ==
    /\ pc = "read"
    /\ out' = out \o (IF output = "HumanReadableOutput"
                      THEN human_data(header, info_handler)
                      ELSE IF output = "SimpleOutput"
                           THEN simple_data(m_get_value, info_handler)
                      ELSE <<>>)
    /\ m_writer' = (IF output = "JSONOutput"
                    THEN m_writer \o json_data(info_handler)
                    ELSE m_writer)
    /\ pc' = "close"
    /\ UNCHANGED <<args, error, m_extended, m_json_output, m_get_value, header,
                   info_handler, stream>>

\* lines 614-619: output->output(), which for JSONOutput ends the document
\* and writes it to standard output (one token a line)
RunOutput ==
    /\ pc = "close"
    /\ m_writer' = (IF output = "JSONOutput" THEN Append(m_writer, "}") ELSE m_writer)
    /\ out' = (IF output = "JSONOutput" THEN out \o m_writer' ELSE out)
    /\ pc' = "done"
    /\ UNCHANGED <<args, error, m_extended, m_json_output, m_get_value, header,
                   info_handler, stream>>

(***************************************************************************)
(* Inputs.                                                                 *)
(***************************************************************************)
\* an entity of the stream; a changeset carries no object timestamp
Changesets(ids) == [type : {changeset}, id : ids, timestamp : {no_timestamp}]
Objects(ids, timestamps) ==
    [type : {node, way, relation}, id : ids, timestamp : timestamps]

\* analyzer specification: changesets and objects of all kinds, object ids
\* of either sign, every object with the same valid timestamp
Entities == Changesets(0..MaxId) \cup Objects(-1..MaxId, {start_of_time})

\* timestamp specification: one id, timestamps absent (0) or 1..MaxTs
TimeEntities == Changesets({1}) \cup Objects({1}, no_timestamp..MaxTs)

\* command specification: a changeset, a node with a timestamp and a node
\* without one
CmdEntities ==
    { [type |-> changeset, id |-> 1, timestamp |-> no_timestamp],
      [type |-> node, id |-> 1, timestamp |-> start_of_time],
      [type |-> node, id |-> 2, timestamp |-> no_timestamp] }

\* the values given to --get: the catalog and five that are not in it
GetValues ==
    { known_values[i] : i \in 1..Len(known_values) }
    \cup { <<"header", "option", "foo">>, <<"header", "option">>,
           <<"data", "bogus">>, <<"bogus">>, EmptyString }

\* "osmium fileinfo --extended FILE"
InfoArgs ==
    { [get |-> <<>>, extended |-> TRUE, json |-> FALSE, show_variables |-> FALSE,
       input_filename |-> "data.osm"] }

\* every combination of --get, --extended, --json and --show-variables, on a
\* file or on standard input
CmdArgs ==
    [get : {<<>>} \cup { <<v>> : v \in GetValues },
     extended : BOOLEAN, json : BOOLEAN, show_variables : BOOLEAN,
     input_filename : {"data.osm", "-"}]

\* header options: name and value
OptionPairs ==
    { [first |-> <<"generator">>, second |-> "osmium"],
      [first |-> <<"generator">>, second |-> "JOSM"],
      [first |-> <<"foo">>, second |-> "bar"] }

\* the sequences over S of length at most n
SeqsUpTo(S, n) == UNION { [1..k -> S] : k \in 0..n }

\* a header without options
InfoHeaders ==
    { [has_multiple_object_versions |-> FALSE, boxes |-> <<BoxText>>, options |-> <<>>] }

\* headers with up to MaxOpts options, as the spec's data model has them:
\* in arrival order, the same name possibly more than once
CmdHeaders ==
    [has_multiple_object_versions : BOOLEAN, boxes : {<<BoxText>>},
     options : SeqsUpTo(OptionPairs, MaxOpts)]

(***************************************************************************)
(* Specifications.                                                         *)
(***************************************************************************)
\* a CommandFileinfo after construction, before setup()
Init ==
    /\ pc = "setup"
    /\ args = [get |-> <<>>, extended |-> FALSE, json |-> FALSE,
               show_variables |-> FALSE, input_filename |-> "-"]
    /\ error = "none"
    /\ m_extended = FALSE
    /\ m_json_output = FALSE
    /\ m_get_value = EmptyString
    /\ header = [has_multiple_object_versions |-> FALSE, boxes |-> <<>>,
                 options |-> <<>>]
    /\ info_handler = InfoHandler
    /\ stream = <<>>
    /\ m_writer = <<>>
    /\ out = <<>>

\* the analyzer: an extended run over streams of up to MaxLen entities
Next ==
    \/ Setup(InfoArgs)
    \/ RunFile
    \/ RunHeader(InfoHeaders)
    \/ Read(Entities, MaxLen)
    \/ RunData
    \/ RunOutput

Spec == Init /\ [][Next]_vars

\* the timestamps: an extended run over streams of up to MaxTimeLen entities
NextTime ==
    \/ Setup(InfoArgs)
    \/ RunFile
    \/ RunHeader(InfoHeaders)
    \/ Read(TimeEntities, MaxTimeLen)
    \/ RunData
    \/ RunOutput

SpecTime == Init /\ [][NextTime]_vars

\* the command: every combination of options, headers with options, streams
\* of up to MaxCmdLen entities
NextCmd ==
    \/ Setup(CmdArgs)
    \/ RunFile
    \/ RunHeader(CmdHeaders)
    \/ Read(CmdEntities, MaxCmdLen)
    \/ RunData
    \/ RunOutput

SpecCmd == Init /\ [][NextCmd]_vars

(***************************************************************************)
(* Properties.                                                             *)
(***************************************************************************)
\* the kinds of objects
object_types == {node, way, relation}

\* the positions of the stream, and those that have a successor
Positions == 1..Len(stream)
Pairs == 1..(Len(stream) - 1)

\* the ids of the entities of one type seen so far
IdsOf(type) == { stream[i].id : i \in { j \in Positions : stream[j].type = type } }

\* the number of entities of one type seen so far
CountOf(type) == Cardinality({ i \in Positions : stream[i].type = type })

\* the largest element of a non-empty finite set of integers
Max(S) == CHOOSE x \in S : \A y \in S : y <= x
Min(S) == CHOOSE x \in S : \A y \in S : x <= y

\* the step appended entity e to the stream
Observed(e) == stream' = Append(stream, e)

\* line x is among the lines s
Printed(x, s) == \E i \in 1..Len(s) : s[i] = x

(***************************************************************************)
(* C1: a stream of changesets only leaves ordered true exactly when no     *)
(* changeset id is smaller than the id of the changeset before it (equal   *)
(* ids are accepted).                                                      *)
(***************************************************************************)
C1_ChangesetOrder ==
    (\A i \in Positions : stream[i].type = changeset)
        => (info_handler.ordered
                <=> \A i \in Pairs : stream[i].id <= stream[i + 1].id)

\* the changesets 0, 2, 1 have been read: the last id is a decrease
C1_Witness ==
    /\ Len(stream) = 3
    /\ \A i \in Positions : stream[i].type = changeset
    /\ stream[1].id = 0 /\ stream[2].id = 2 /\ stream[3].id = 1
    /\ ~info_handler.ordered

(***************************************************************************)
(* C2: a stream of objects only, all ids positive, leaves ordered true     *)
(* exactly when it is sorted by (type, id) with node < way < relation,     *)
(* non-decreasingly.                                                       *)
(***************************************************************************)
C2_ObjectOrder ==
    (\A i \in Positions : stream[i].type \in object_types /\ stream[i].id > 0)
        => (info_handler.ordered
                <=> \A i \in Pairs :
                        \/ stream[i].type < stream[i + 1].type
                        \/ /\ stream[i].type = stream[i + 1].type
                           /\ stream[i].id <= stream[i + 1].id)

\* Node#1, Way#1, Node#2: a node after a way
C2_Witness ==
    /\ Len(stream) = 3
    /\ stream[1].type = node /\ stream[1].id = 1
    /\ stream[2].type = way /\ stream[2].id = 1
    /\ stream[3].type = node /\ stream[3].id = 2
    /\ ~info_handler.ordered

(***************************************************************************)
(* C3: an object of the same type and id as the entity right before it     *)
(* sets multiple_versions and leaves ordered as it was; Node#1, Node#1,    *)
(* Node#2 ends with ordered and multiple_versions both true.               *)
(***************************************************************************)
C3_RepeatedObject ==
    /\ [][\A e \in Entities :
            (/\ Observed(e)
             /\ Len(stream) > 0
             /\ e.type \in object_types
             /\ stream[Len(stream)].type = e.type
             /\ stream[Len(stream)].id = e.id)
            => /\ info_handler'.multiple_versions
               /\ info_handler'.ordered = info_handler.ordered]_vars
    /\ []((/\ Len(stream) = 3
           /\ \A i \in Positions : stream[i].type = node
           /\ stream[1].id = 1 /\ stream[2].id = 1 /\ stream[3].id = 2)
          => info_handler.ordered /\ info_handler.multiple_versions)

\* Node#1, Node#1, Node#2 has been read
C3_Witness ==
    /\ Len(stream) = 3
    /\ \A i \in Positions : stream[i].type = node
    /\ stream[1].id = 1 /\ stream[2].id = 1 /\ stream[3].id = 2
    /\ info_handler.ordered /\ info_handler.multiple_versions

(***************************************************************************)
(* C4: ordered starts true and never returns to true once false;           *)
(* multiple_versions starts false and never returns to false once true.    *)
(***************************************************************************)
C4_Latches ==
    /\ info_handler.ordered /\ ~info_handler.multiple_versions
    /\ [][/\ ~info_handler.ordered => ~info_handler'.ordered
          /\ info_handler.multiple_versions => info_handler'.multiple_versions]_vars

\* ordered was cleared by a node after a way and stays false after Node#2,
\* which is in order after Node#1, to the end of the run
C4_Witness ==
    /\ Len(stream) = 3
    /\ stream[1].type = way /\ stream[2].type = node /\ stream[3].type = node
    /\ stream[2].id = 1 /\ stream[3].id = 2
    /\ ~info_handler.ordered
    /\ pc = "done"

\* the timestamps that were present on the objects read so far
PresentTimestamps ==
    { stream[i].timestamp :
        i \in { j \in Positions : /\ stream[j].type \in object_types
                                  /\ stream[j].timestamp # no_timestamp } }

(***************************************************************************)
(* C5: first_timestamp and last_timestamp are the smallest and the largest *)
(* of the timestamps that were present on the objects read so far (they    *)
(* keep their start values while there is none); an object without a       *)
(* timestamp and a changeset leave both unchanged.                         *)
(***************************************************************************)
C5_Timestamps ==
    /\ PresentTimestamps # {}
        => /\ info_handler.first_timestamp = Min(PresentTimestamps)
           /\ info_handler.last_timestamp = Max(PresentTimestamps)
    /\ PresentTimestamps = {}
        => /\ info_handler.first_timestamp = end_of_time
           /\ info_handler.last_timestamp = start_of_time

\* the counter and the largest id of each type of entity
Counters(h) ==
    [t \in {changeset, node, way, relation} |->
        IF t = changeset THEN h.changesets
        ELSE IF t = node THEN h.nodes
        ELSE IF t = way THEN h.ways
        ELSE h.relations]

Largest(h) ==
    [t \in {changeset, node, way, relation} |->
        IF t = changeset THEN h.largest_changeset_id
        ELSE IF t = node THEN h.largest_node_id
        ELSE IF t = way THEN h.largest_way_id
        ELSE h.largest_relation_id]

(***************************************************************************)
(* C6: each counter is the number of entities of its type read so far and  *)
(* each largest id is the maximum of 0 and the ids of its type; reading an *)
(* entity adds one to the counter of its type, leaves the counters and     *)
(* maxima of the other types unchanged, and nothing ever decreases.        *)
(***************************************************************************)
C6_CountsAndMaxima ==
    /\ [](\A t \in {changeset, node, way, relation} :
            /\ Counters(info_handler)[t] = CountOf(t)
            /\ Largest(info_handler)[t] = Max(IdsOf(t) \cup {0}))
    /\ [][/\ \A t \in {changeset, node, way, relation} :
                /\ Counters(info_handler')[t] >= Counters(info_handler)[t]
                /\ Largest(info_handler')[t] >= Largest(info_handler)[t]
          /\ \A e \in Entities : Observed(e) =>
                \A t \in {changeset, node, way, relation} :
                    IF t = e.type
                    THEN Counters(info_handler')[t] = Counters(info_handler)[t] + 1
                    ELSE /\ Counters(info_handler')[t] = Counters(info_handler)[t]
                         /\ Largest(info_handler')[t] = Largest(info_handler)[t]]_vars

\* a relation with a negative id, a way and a changeset have been counted
C6_Witness ==
    /\ Len(stream) = 3
    /\ info_handler.relations = 1 /\ info_handler.largest_relation_id = 0
    /\ -1 \in IdsOf(relation)
    /\ info_handler.ways = 1 /\ info_handler.largest_way_id = 2
    /\ info_handler.changesets = 1 /\ info_handler.largest_changeset_id = 1
    /\ info_handler.nodes = 0

\* two lines of HumanReadableOutput::data
UnknownLine ==
    "  Multiple versions of same object: unknown (because objects in file are unordered)"
WarningLine == "    WARNING! This is different from the setting in the header."

(***************************************************************************)
(* C7: once data() has been called, every view reports multiple_versions   *)
(* only when ordered is true.  The single value data.multiple_versions is  *)
(* "unknown" when ordered is false and yes/no by the flag otherwise; the   *)
(* JSON document has the member multiple_versions, with the flag as its    *)
(* value, exactly when ordered is true; the text view prints "unknown" and *)
(* no warning when ordered is false, and otherwise yes/no by the flag and  *)
(* the warning exactly when the flag differs from the header's.            *)
(***************************************************************************)
C7_MultipleVersionsViews ==
    (pc \in {"close", "done"} /\ m_extended) =>
        LET ordered == info_handler.ordered
            multiple == info_handler.multiple_versions
        IN  /\ (~m_json_output /\ m_get_value = <<"data", "multiple_versions">>)
                => out = << IF ~ordered THEN "unknown"
                            ELSE IF multiple THEN "yes" ELSE "no" >>
            /\ m_json_output
                => /\ Printed("multiple_versions", m_writer) <=> ordered
                   /\ \A i \in 1..Len(m_writer) :
                        m_writer[i] = "multiple_versions"
                            => m_writer[i + 1] = (IF multiple THEN "true" ELSE "false")
            /\ (~m_json_output /\ m_get_value = EmptyString)
                => /\ Printed(UnknownLine, out) <=> ~ordered
                   /\ Printed("  Multiple versions of same object: yes", out)
                        <=> (ordered /\ multiple)
                   /\ Printed("  Multiple versions of same object: no", out)
                        <=> (ordered /\ ~multiple)
                   /\ Printed(WarningLine, out)
                        <=> (ordered
                             /\ multiple # header.has_multiple_object_versions)

\* a repeated node in an unordered stream: the flag is set, the single value
\* printed is "unknown"
C7_Witness ==
    /\ pc = "done"
    /\ ~info_handler.ordered /\ info_handler.multiple_versions
    /\ m_get_value = <<"data", "multiple_versions">>
    /\ out = <<"unknown">>

\* the rule for a --get value, in the words of the specification
HasPrefix(key, p) == Len(key) > Len(p) /\ \A i \in 1..Len(p) : key[i] = p[i]
Catalog == { known_values[i] : i \in 1..Len(known_values) }
Recognized(key) == HasPrefix(key, <<"header", "option">>) \/ key \in Catalog
NeedsExtended(key) == HasPrefix(key, <<"data">>)

KeyRule ==
    LET key == args.get[1]
    IN  /\ error \notin {"unknown_value", "need_extended"}
            <=> (Recognized(key) /\ (~NeedsExtended(key) \/ args.extended))
        /\ ~Recognized(key) => error = "unknown_value"
        /\ (Recognized(key) /\ NeedsExtended(key) /\ ~args.extended)
            => error = "need_extended"
        /\ HasPrefix(key, <<"header", "option">>)
            => error \notin {"unknown_value", "need_extended"}

(***************************************************************************)
(* C8: the validation of the --get value.  Stated for every invocation:    *)
(* setup raises neither of the two errors about the value exactly when the *)
(* value (starts with "header.option." or is in the catalog) and (does not *)
(* start with "data." or --extended is given); a value that is neither is  *)
(* rejected as unknown, a catalog data.* value without --extended with the *)
(* error asking for --extended.                                            *)
(***************************************************************************)
C8_Original == (pc # "setup" /\ Len(args.get) = 1) => KeyRule

\* C8 as amended: the rule holds when --show-variables is not given; with
\* --show-variables setup lists the catalog and returns false without an error
C8_KeyValidation ==
    /\ (pc # "setup" /\ Len(args.get) = 1 /\ ~args.show_variables) => KeyRule
    /\ (pc # "setup" /\ args.show_variables)
        => error = "none" /\ pc = "returned_false"

\* data.count.nodes without --extended
C8_Witness ==
    /\ args.get = << <<"data", "count", "nodes">> >>
    /\ ~args.extended /\ ~args.show_variables
    /\ error = "need_extended"
    /\ pc = "threw"

\* run() has not touched the reader, the handler or the JSON writer
NothingDone ==
    /\ stream = <<>>
    /\ info_handler = InfoHandler
    /\ m_writer = <<>>

(***************************************************************************)
(* C9: --json together with --get always ends setup in an error, and after *)
(* any error of setup no entity has been read and nothing has been         *)
(* printed.                                                                *)
(***************************************************************************)
C9_Original ==
    /\ (pc # "setup" /\ Len(args.get) = 1 /\ args.json) => error # "none"
    /\ error # "none" => pc = "threw" /\ NothingDone /\ out = <<>>

\* C9 as amended: unless --show-variables is given as well; then setup lists
\* the catalog and returns false, and run() is not called either
C9_ConflictAndErrors ==
    /\ (pc # "setup" /\ Len(args.get) = 1 /\ args.json /\ ~args.show_variables)
        => error # "none"
    /\ error # "none" => pc = "threw" /\ NothingDone /\ out = <<>>
    /\ (pc # "setup" /\ args.show_variables)
        => /\ error = "none" /\ pc = "returned_false" /\ NothingDone
           /\ Len(out) = Len(known_values)

\* a catalog value that needs nothing else, with --json
C9_Witness ==
    /\ args.get = << <<"file", "name">> >>
    /\ args.json /\ ~args.show_variables
    /\ error = "get_and_json"
    /\ pc = "threw"

\* the <name> of header.option.<name>, and the values the header gives it
OptionName == SubSeq(m_get_value, 3, Len(m_get_value))
OptionValues ==
    LET hits == SelectSeq(header.options, LAMBDA o : o.first = OptionName)
    IN  [i \in 1..Len(hits) |-> hits[i].second]
SimpleRunDone == pc = "done" /\ ~m_json_output /\ m_get_value # EmptyString

ObjectsSeen == { i \in Positions : stream[i].type \in object_types }

\* output->data() has been called
DataCalled == pc \in {"close", "done"} /\ m_extended

\* token value directly follows token key among the tokens s
Follows(key, value, s) ==
    \E i \in 1..(Len(s) - 1) : s[i] = key /\ s[i + 1] = value

\* the start values of first_timestamp and last_timestamp as a view prints
\* them
UnsetFirstText == to_iso(end_of_time)
UnsetLastText == to_iso(start_of_time)

(***************************************************************************)
(* C11: after a stream without objects the single values                   *)
(* data.timestamp.first and data.timestamp.last are an empty line each;    *)
(* once an object has been read no view prints the start value of          *)
(* first_timestamp or of last_timestamp (a value counts as the start value *)
(* when no object read so far carries it as its timestamp).                *)
(***************************************************************************)
C11_TimestampViews ==
    DataCalled =>
        /\ (/\ ObjectsSeen = {}
            /\ ~m_json_output
            /\ m_get_value \in { <<"data", "timestamp", "first">>,
                                 <<"data", "timestamp", "last">> })
            => out = <<"">>
        /\ (ObjectsSeen # {} /\ end_of_time \notin PresentTimestamps)
            => /\ (~m_json_output /\ m_get_value = <<"data", "timestamp", "first">>)
                    => out # <<UnsetFirstText>>
               /\ (~m_json_output /\ m_get_value = EmptyString)
                    => ~Printed("    First: " \o UnsetFirstText, out)
               /\ m_json_output => ~Follows("first", UnsetFirstText, m_writer)
        /\ (ObjectsSeen # {} /\ start_of_time \notin PresentTimestamps)
            => /\ (~m_json_output /\ m_get_value = <<"data", "timestamp", "last">>)
                    => out # <<UnsetLastText>>
               /\ (~m_json_output /\ m_get_value = EmptyString)
                    => ~Printed("    Last: " \o UnsetLastText, out)
               /\ m_json_output => ~Follows("last", UnsetLastText, m_writer)

\* the flags of the handler that a comparison with last_type and last_id
\* can change
Flags(h) == <<h.ordered, h.multiple_versions>>

(***************************************************************************)
(* C12: after every call of changeset or osm_object, last_type and last_id *)
(* are the type and the id of the entity just handled, whatever they were  *)
(* before; an object that is the first entity or comes right after a       *)
(* changeset, and a changeset that comes right after an object, leave      *)
(* ordered and multiple_versions as they were.                             *)
(***************************************************************************)
C12_LastSeen ==
    [][\A e \in Entities :
        Observed(e)
        => /\ info_handler'.last_type = e.type
           /\ info_handler'.last_id = e.id
           /\ (/\ e.type \in object_types
               /\ \/ Len(stream) = 0
                  \/ stream[Len(stream)].type = changeset)
               => Flags(info_handler') = Flags(info_handler)
           /\ (/\ e.type = changeset
               /\ Len(stream) > 0
               /\ stream[Len(stream)].type \in object_types)
               => Flags(info_handler') = Flags(info_handler)]_vars

\* Relation#2, Changeset#2, Node#1 has been read: a changeset with the id
\* of the relation before it, then a node of a lower type and id
C12_Witness ==
    /\ Len(stream) = 3
    /\ stream[1].type = relation /\ stream[1].id = 2
    /\ stream[2].type = changeset /\ stream[2].id = 2
    /\ stream[3].type = node /\ stream[3].id = 1
    /\ info_handler.last_type = node /\ info_handler.last_id = 1
    /\ info_handler.ordered /\ ~info_handler.multiple_versions

\* every entity read so far has a positive id
PositiveIds == \A i \in Positions : stream[i].id > 0

\* no two objects read so far have the same type and id
EveryObjectOnce ==
    \A i, j \in ObjectsSeen :
        (stream[i].type = stream[j].type /\ stream[i].id = stream[j].id)
            => i = j

\* no changeset was read between two objects
NoChangesetBetweenObjects ==
    \A i, k \in ObjectsSeen :
        \A j \in Positions : (i < j /\ j < k) => stream[j].type # changeset

\* C13 as stated, for every stream of changesets and objects with positive
\* ids: ordered and no multiple versions at the end of the pass mean that
\* every object occurs once
C13_Original ==
    (DataCalled /\ PositiveIds
        /\ info_handler.ordered /\ ~info_handler.multiple_versions)
        => EveryObjectOnce

(***************************************************************************)
(* C13: for a stream of changesets and objects with positive ids in which  *)
(* no changeset lies between two objects, ordered = true and               *)
(* multiple_versions = false at the end of the pass mean that no two       *)
(* objects of the stream have the same type and id.                        *)
(***************************************************************************)
C13_EveryObjectOnce ==
    (DataCalled /\ PositiveIds /\ NoChangesetBetweenObjects
        /\ info_handler.ordered /\ ~info_handler.multiple_versions)
        => EveryObjectOnce

\* the pass over Changeset#1, Node#1, Node#2 has ended with ordered true and
\* multiple_versions false
C13_Witness ==
    /\ pc = "done"
    /\ Len(stream) = 3
    /\ stream[1].type = changeset /\ stream[1].id = 1
    /\ stream[2].type = node /\ stream[2].id = 1
    /\ stream[3].type = node /\ stream[3].id = 2
    /\ info_handler.ordered /\ ~info_handler.multiple_versions
    /\ EveryObjectOnce

====
